---- MODULE Spec2Model ----
(***************************************************************************)
(* Model of clock-bot (src/src/main.rs): the synchronisation loop that     *)
(* edits a pinned message once per second, its RTT estimator (Window),     *)
(* its server-time classifier (ServerTime), its PI controller (Ratio) and  *)
(* the round-robin endpoint cursor of Client.                              *)
(*                                                                         *)
(* Units.  A wall-clock instant (chrono DateTime<Utc>) is a record         *)
(* [secs, nanos] as chrono stores it.  A Duration is a number of           *)
(* nanoseconds.  An RTT sample is a number of milliseconds.  Window.data   *)
(* (an f64 of seconds) is the exact decimal n / 10^e milliseconds, kept    *)
(* normalised.  Ratio.v, K_P and K_I are in hundredths; Ratio.i is a       *)
(* whole number (it only ever receives +1.0 and -1.0).  The arithmetic is  *)
(* exact: the rounding of f64 operations is not represented, and           *)
(* Duration::from_secs_f64 / mul_f64 truncate to whole nanoseconds.        *)
(*                                                                         *)
(* The Date header is represented by its seconds field, the only place     *)
(* where an HTTP-date can contain ":dd " (NoDate: absent or not a string). *)
(* Client.time1 and Client.date only feed the info! log line and are not   *)
(* modelled; Client.time0 is kept relative to the tick's t0.               *)
(***************************************************************************)
EXTENDS Integers, Sequences, FiniteSets, TLC

VARIABLES
    pc,         \* position of main: "getchat", "begin", "send", "recv", "sleep", "exit"
    cli,        \* Client: url_idx, sec0, sec1, server_time_field, server_time_header, time0
    win,        \* Window (main's `win`)
    avg,        \* main's `avg`, nanoseconds
    ratio,      \* Ratio (main's `ratio`)
    date,       \* main's `date`: the target second
    req,        \* the request built by edit_message_builder: endpoint and text
    resp,       \* the response of the request of this tick, and edit_message's result
    now,        \* main's `now` (line 325)
    off,        \* main's `off`, nanoseconds
    slept,      \* what the end of the iteration did: NoSleep or the sleep duration
    pre,        \* history: `ratio` and `date` before the latest step that may change them
    built,      \* history: number of edit requests built so far
    pushes,     \* history: number of Window::push calls so far
    scen,       \* history: follows the three-tick scenario of spec section 8
    clock,      \* the Utc::now() reading of line 379
    log,        \* what the match of line 334 logged on the latest tick
    upd         \* history: number of update(+1.0) and update(-1.0) calls so far

vars == <<pc, cli, win, avg, ratio, date, req, resp, now, off, slept,
          pre, built, pushes, scen, clock, log, upd>>

-----------------------------------------------------------------------------
(* Bounds of the model *)

NumUrls == 3
StartSec == 58
MaxSpan == 3
MaxAccum == 12
MaxUpdates == 16

EndSec == StartSec + MaxSpan

(* wall-clock sub-second readings and RTT samples (ms) the environment draws *)
SubNanos == {0, 500000000}
RttSamples == {0, 90, 100, 120}

-----------------------------------------------------------------------------
(* Time *)

NanosPerSec == 1000000000

Time(s, n) == [secs |-> s, nanos |-> n]
NoTime == [secs |-> -1, nanos |-> 0]

TimeLt(a, b) == a.secs < b.secs \/ (a.secs = b.secs /\ a.nanos < b.nanos)

Times == {Time(s, n) : s \in StartSec..EndSec, n \in SubNanos}

DELAY == 1

(* t - d for a Duration d of less than a second, in nanoseconds *)
TimeSubNanos(t, d) ==
    IF t.nanos >= d
    THEN Time(t.secs, t.nanos - d)
    ELSE Time(t.secs - 1, t.nanos + (NanosPerSec - d))

(* a - b as a TimeDelta: whole seconds (possibly negative) and nanos in [0, 1s) *)
TimeSub(a, b) ==
    IF a.nanos >= b.nanos
    THEN Time(a.secs - b.secs, a.nanos - b.nanos)
    ELSE Time(a.secs - b.secs - 1, a.nanos + (NanosPerSec - b.nanos))

AddSecs(t, k) == Time(t.secs + k, t.nanos)

second(t) == t.secs % 60

align_date_none(t) == t

align_date(t) == Time(t.secs, t.nanos - t.nanos)

format_msg(t) == <<(t.secs \div 3600) % 24, (t.secs \div 60) % 60, t.secs % 60>>

-----------------------------------------------------------------------------
(* ServerTime *)

Early == "Early"
Late == "Late"
Other == "Other"

NoDate == -1

from_header(s, s0, s1) ==
    IF s = s0 THEN Early
    ELSE IF s = s1 THEN Late
    ELSE Other

from_timestamp(timestamp, s0, s1) ==
    LET sec == timestamp % 60
    IN  IF sec = s0 THEN Early
        ELSE IF sec = s1 THEN Late
        ELSE Other

-----------------------------------------------------------------------------
(* Window *)

ALPHA == 3
ALPHA_DEN == 10

RECURSIVE Pow10(_)
Pow10(k) == IF k = 0 THEN 1 ELSE 10 * Pow10(k - 1)

RECURSIVE Norm(_, _)
Norm(n, e) ==
    IF e > 0 /\ n % 10 = 0 THEN Norm(n \div 10, e - 1) ELSE [n |-> n, e |-> e]

Window_new == [n |-> 0, e |-> 0]

Window_push(w, value) ==
    IF w.n = 0
    THEN [n |-> value, e |-> 0]
    ELSE Norm((ALPHA_DEN - ALPHA) * w.n + ALPHA * value * Pow10(w.e), w.e + 1)

NanosPerMilliExp == 6

Window_avg(w) ==
    IF w.e <= NanosPerMilliExp
    THEN w.n * Pow10(NanosPerMilliExp - w.e)
    ELSE w.n \div Pow10(w.e - NanosPerMilliExp)

Window_is_empty_never(w) == FALSE

Window_is_empty(w) == w.n = 0

-----------------------------------------------------------------------------
(* Ratio *)

INITIAL == 50
K_P == 1
K_I == 1
ClampMin == 0
ClampMax == 100

Clamp(x) == IF x < ClampMin THEN ClampMin ELSE IF x > ClampMax THEN ClampMax ELSE x

Ratio_new == [v |-> INITIAL, i |-> 0]

Ratio_update_noclamp(r, error) ==
    LET i2 == r.i + error
    IN  [v |-> r.v + K_P * error + K_I * i2, i |-> i2]

Ratio_update_reversed(r, error) ==
    LET i2 == r.i + error
    IN  [v |-> Clamp(r.v - K_P * error - K_I * i2), i |-> i2]

Ratio_update_antiwindup(r, error) ==
    LET i2 == r.i + error
        raw == r.v + K_P * error + K_I * i2
    IN  [v |-> Clamp(raw), i |-> IF raw = Clamp(raw) THEN i2 ELSE r.i]

Ratio_update(r, error) ==
    LET i2 == r.i + error
    IN  [v |-> Clamp(r.v + K_P * error + K_I * i2), i |-> i2]

Ratio_apply_full(r, dur) == dur

Ratio_apply(r, dur) ==
    (dur \div ClampMax) * r.v + ((dur % ClampMax) * r.v) \div ClampMax

-----------------------------------------------------------------------------
(* Client *)

Stale == -1

Client_new ==
    [url_idx |-> 0, sec0 |-> 59, sec1 |-> 0,
     server_time_field |-> Other, server_time_header |-> Other,
     time0 |-> Stale]

set_second_nowrap(c, sec) ==
    [c EXCEPT !.sec0 = sec - 1, !.sec1 = sec]

set_second(c, sec) ==
    [c EXCEPT !.sec0 = IF sec = 0 THEN 59 ELSE sec - 1, !.sec1 = sec]

(* the responses the remote can give to a request sent for window (s0, s1):
   a transport error, a non-success status, or a success status with or
   without a Date header and a body that is malformed, has ok = false, has no
   result, or carries the result (for editMessageText: edit_date); elapsed is
   the time from t0 to the Instant::now() of line 130, in ms *)
NearSeconds(s1) == {(s1 + 59) % 60, s1, (s1 + 1) % 60}

NoResp == [status |-> "none"]

Responses(s1) ==
    {[status |-> "transport"], [status |-> "http_error"]}
    \cup
    {[status |-> "success", date |-> d, body |-> b, edit_date |-> 60 + s, elapsed |-> el] :
        d \in {NoDate} \cup NearSeconds(s1),
        b \in {"malformed", "not_ok", "no_result"},
        s \in {0}, el \in {0}}
    \cup
    {[status |-> "success", date |-> d, body |-> "ok", edit_date |-> 60 + s, elapsed |-> el] :
        d \in {NoDate} \cup NearSeconds(s1),
        s \in NearSeconds(s1), el \in RttSamples}

finalize(c, r) ==
    IF r.status # "success"
    THEN [cli |-> c, ok |-> FALSE]
    ELSE LET c1 == [c EXCEPT !.time0 = r.elapsed]
             c2 == IF r.date # NoDate
                   THEN [c1 EXCEPT !.server_time_header =
                                       from_header(r.date, c1.sec0, c1.sec1)]
                   ELSE c1
         IN  [cli |-> c2, ok |-> r.body = "ok"]

edit_message_builder_nowrap(c) ==
    LET idx == c.url_idx + 1
    IN  [cli |-> [c EXCEPT !.url_idx = IF idx > NumUrls THEN 0 ELSE idx],
         url |-> c.url_idx]

edit_message_builder(c) ==
    LET idx == c.url_idx + 1
    IN  [cli |-> [c EXCEPT !.url_idx = IF idx >= NumUrls THEN 0 ELSE idx],
         url |-> c.url_idx]

edit_message(c, r) ==
    LET f == finalize(c, r)
    IN  IF f.ok
        THEN [cli |-> [f.cli EXCEPT !.server_time_field =
                           from_timestamp(r.edit_date, f.cli.sec0, f.cli.sec1)],
              ok |-> TRUE]
        ELSE f

-----------------------------------------------------------------------------
(* main: the pieces of the loop body *)

ControllerStep_split(r, f, h) ==
    IF f = Early THEN Ratio_update(r, -1)
    ELSE IF f = Late /\ h = Late THEN Ratio_update(r, 1)
    ELSE r

ControllerStep(r, f, h) ==
    IF f = Early /\ h = Early THEN Ratio_update(r, -1)
    ELSE IF f = Late /\ h = Late THEN Ratio_update(r, 1)
    ELSE r

NextRatio(ok, w, r, c) ==
    IF ok /\ ~Window_is_empty(w)
    THEN ControllerStep(r, c.server_time_field, c.server_time_header)
    ELSE r

Rtt(c) == IF c.time0 = Stale THEN 0 ELSE c.time0

NextWin_always(ok, w, c) == Window_push(w, Rtt(c))

NextWin(ok, w, c) == IF ok THEN Window_push(w, Rtt(c)) ELSE w

NextDate_nodrift(d, t) == AddSecs(d, DELAY)

NextDate_realign(d, t) == AddSecs(align_date(t), DELAY)

NextDate_noadd(d, t) ==
    LET d1 == AddSecs(d, DELAY)
    IN  IF TimeLt(d1, t) THEN align_date(t) ELSE d1

NextDate(d, t) ==
    LET d1 == AddSecs(d, DELAY)
    IN  IF TimeLt(d1, t) THEN AddSecs(align_date(t), DELAY) ELSE d1

(* line 332-340: what the match logs: error!("Server Date is earlier!") for
   (Late, Early), nothing for the other Early / Late pairs, and
   warn!("Unexpected server time") for any pair with an Other *)
MatchLog_symmetric(ok, w, f, h) ==
    IF ~ok \/ Window_is_empty(w) THEN "none"
    ELSE IF f = Other \/ h = Other THEN "unexpected"
    ELSE IF f # h THEN "earlier"
    ELSE "none"

MatchLog(ok, w, f, h) ==
    IF ~ok \/ Window_is_empty(w) THEN "none"
    ELSE IF f = Other \/ h = Other THEN "unexpected"
    ELSE IF f = Late /\ h = Early THEN "earlier"
    ELSE "none"

(* line 326-329: an Err of edit_message is logged and the loop goes on *)
NextPc_abort(ok) == IF ok THEN "sleep" ELSE "exit"

NextPc(ok) == "sleep"

ScenarioRtt == <<100, 120, 90>>

NextScen(sc, ok, c, r2) ==
    IF ~sc.on \/ Len(sc.v) = Len(ScenarioRtt)
    THEN sc
    ELSE IF /\ ok
            /\ Rtt(c) = ScenarioRtt[Len(sc.v) + 1]
            /\ c.server_time_field = Early
            /\ c.server_time_header = Early
         THEN [on |-> TRUE, v |-> Append(sc.v, r2.v)]
         ELSE [on |-> FALSE, v |-> <<>>]

-----------------------------------------------------------------------------
(* State machine *)

NoSleep == [secs |-> -1, nanos |-> 0]

SleepFor_always(untilT, t) == TimeSub(untilT, t)

(* line 379-388: td = until - Utc::now(); sleep(td) when td.to_std() is Ok *)
SleepFor(untilT, t) ==
    LET td == TimeSub(untilT, t)
    IN  IF td.secs >= 0 THEN td ELSE NoSleep

Init ==
    /\ pc = "getchat"
    /\ cli = Client_new
    /\ win = Window_new
    /\ avg = 0
    /\ ratio = Ratio_new
    /\ date = NoTime
    /\ req = [url |-> -1, msg |-> <<>>, target |-> NoTime]
    /\ resp = [r |-> NoResp, ok |-> TRUE]
    /\ now = NoTime
    /\ off = 0
    /\ slept = NoSleep
    /\ pre = [ratio |-> Ratio_new, date |-> NoTime]
    /\ built = 0
    /\ pushes = 0
    /\ scen = [on |-> TRUE, v |-> <<>>]
    /\ clock = NoTime
    /\ log = "none"
    /\ upd = [up |-> 0, down |-> 0]

(* main line 305-308: the startup getChat call; an error or a chat without a
   pinned message ends the process *)
GetChat ==
    /\ pc = "getchat"
    /\ \E r \in Responses(cli.sec1), pinned \in BOOLEAN :
          LET f == finalize(cli, r)
          IN  /\ cli' = f.cli
              /\ pc' = IF f.ok /\ pinned THEN "begin" ELSE "exit"
    /\ UNCHANGED <<win, avg, ratio, date, req, resp, now, off, slept,
                   pre, built, pushes, scen, clock, log, upd>>

(* main line 310-318: the first target second and the first request *)
Begin ==
    /\ pc = "begin"
    /\ \E t \in Times :
          LET d == align_date(t)
              b == edit_message_builder(set_second(cli, second(d)))
          IN  /\ date' = d
              /\ cli' = b.cli
              /\ req' = [url |-> b.url, msg |-> format_msg(d), target |-> d]
    /\ win' = Window_new
    /\ avg' = 0
    /\ ratio' = Ratio_new
    /\ built' = built + 1
    /\ pc' = "send"
    /\ UNCHANGED <<resp, now, off, slept, pre, pushes, scen, clock, log, upd>>

(* main line 323-324: t0 and the blocking edit_message call *)
Edit ==
    /\ pc = "send"
    /\ date.secs < EndSec
    /\ \E r \in Responses(cli.sec1) :
          LET e == edit_message([cli EXCEPT !.time0 = Stale], r)
          IN  /\ cli' = e.cli
              /\ resp' = [r |-> r, ok |-> e.ok]
    /\ slept' = NoSleep
    /\ clock' = NoTime
    /\ pc' = "recv"
    /\ UNCHANGED <<win, avg, ratio, date, req, now, off, pre, built, pushes,
                   scen, log, upd>>

(* main line 325-376: now, the controller and estimator step (or the error
   branch), the advance of the target second with the drift check, and the
   next request *)
Process ==
    /\ pc = "recv"
    /\ \E t \in Times :
          LET r2 == NextRatio(resp.ok, win, ratio, cli)
              w2 == NextWin(resp.ok, win, cli)
              a2 == IF resp.ok THEN Window_avg(w2) ELSE avg
              d2 == NextDate(date, t)
              b == edit_message_builder(set_second(cli, second(d2)))
          IN  /\ now' = t
              /\ ratio' = r2
              /\ win' = w2
              /\ avg' = a2
              /\ off' = Ratio_apply(r2, a2)
              /\ date' = d2
              /\ cli' = [b.cli EXCEPT !.time0 = Stale]
              /\ req' = [url |-> b.url, msg |-> format_msg(d2), target |-> d2]
              /\ scen' = NextScen(scen, resp.ok, cli, r2)
              /\ upd' = [up |-> IF r2.i > ratio.i THEN upd.up + 1 ELSE upd.up,
                         down |-> IF r2.i < ratio.i THEN upd.down + 1 ELSE upd.down]
    /\ log' = MatchLog(resp.ok, win, cli.server_time_field, cli.server_time_header)
    /\ pushes' = IF resp.ok THEN pushes + 1 ELSE pushes
    /\ built' = built + 1
    /\ pre' = [ratio |-> ratio, date |-> date]
    /\ resp' = [r |-> NoResp, ok |-> resp.ok]
    /\ pc' = NextPc(resp.ok)
    /\ UNCHANGED <<slept, clock>>

(* main line 378-388: sleep until date - off, or go on at once when behind *)
Sleep ==
    /\ pc = "sleep"
    /\ \E t \in Times :
          /\ clock' = t
          /\ slept' = SleepFor(TimeSubNanos(date, off), t)
    /\ now' = NoTime
    /\ pc' = "send"
    /\ UNCHANGED <<cli, win, avg, ratio, date, req, resp, off, pre, built,
                   pushes, scen, log, upd>>

Next == GetChat \/ Begin \/ Edit \/ Process \/ Sleep

Spec == Init /\ [][Next]_vars

-----------------------------------------------------------------------------
(* The controller alone: any sequence of +1.0 / -1.0 updates *)

Update ==
    /\ \E error \in {-1, 1} :
          /\ ratio.i + error >= -MaxAccum
          /\ ratio.i + error <= MaxAccum
          /\ upd.up + upd.down < MaxUpdates
          /\ ratio' = Ratio_update(ratio, error)
          /\ upd' = [up |-> IF error = 1 THEN upd.up + 1 ELSE upd.up,
                     down |-> IF error = -1 THEN upd.down + 1 ELSE upd.down]
    /\ pre' = [pre EXCEPT !.ratio = ratio]
    /\ UNCHANGED <<pc, cli, win, avg, date, req, resp, now, off, slept, built,
                   pushes, scen, clock, log>>

SpecRatio == Init /\ [][Update]_vars

-----------------------------------------------------------------------------
(* Claims *)

(* a step of a tick whose edit_message call returned Err *)
FailedTickStep ==
    \/ pc = "send" /\ pc' = "recv" /\ ~resp'.ok
    \/ pc \in {"recv", "sleep"} /\ ~resp.ok

(* the reading a response's Date header gives against window (s0, s1) *)
HeaderReading(r, s0, s1) ==
    IF r.date = NoDate THEN Other ELSE from_header(r.date, s0, s1)

(* C1: when edit_message has returned Ok and the controller step is about to
   run, the two readings its match reads are the readings of this tick's
   response against this tick's window; no reading of an earlier response is
   used, also when the response has no usable Date header. *)
C1_ReadingsFromThisTick ==
    (pc = "recv" /\ resp.ok /\ ~Window_is_empty(win)) =>
        /\ cli.server_time_header = HeaderReading(resp.r, cli.sec0, cli.sec1)
        /\ cli.server_time_field =
               from_timestamp(resp.r.edit_date, cli.sec0, cli.sec1)

(* C2: no step of a failed tick changes the estimator (win, avg), the
   controller (ratio) or the number of pushed samples. *)
C2_FailedTickKeepsEstimatorController ==
    [][FailedTickStep =>
          /\ win' = win
          /\ avg' = avg
          /\ ratio' = ratio
          /\ pushes' = pushes]_vars

C2_Witness ==
    /\ pc = "sleep"
    /\ ~resp.ok
    /\ pushes > 1
    /\ ratio.i # 0

(* C3: no step of a failed tick changes the stored classifier readings
   server_time_header and server_time_field. *)
C3_FailedTickKeepsReadings ==
    [][FailedTickStep =>
          /\ cli'.server_time_header = cli.server_time_header
          /\ cli'.server_time_field = cli.server_time_field]_vars

(* C4: the controller changes only in the controller step of a tick and only
   when the two stored readings are equal and not Other: (Early, Early)
   applies update(-1.0), (Late, Late) applies update(+1.0), exactly when the
   tick succeeded with a non-empty estimator; any other pair leaves v and i
   as they were; at most one update is applied per tick. *)
C4_ControllerChangesOnlyOnAgreement ==
    [][LET f == cli.server_time_field
           h == cli.server_time_header
           runs == resp.ok /\ ~Window_is_empty(win)
           down == [i |-> ratio.i - 1,
                    v |-> IF ratio.v - 1 + (ratio.i - 1) < 0 THEN 0
                          ELSE IF ratio.v - 1 + (ratio.i - 1) > 100 THEN 100
                          ELSE ratio.v - 1 + (ratio.i - 1)]
           up == [i |-> ratio.i + 1,
                  v |-> IF ratio.v + 1 + (ratio.i + 1) < 0 THEN 0
                        ELSE IF ratio.v + 1 + (ratio.i + 1) > 100 THEN 100
                        ELSE ratio.v + 1 + (ratio.i + 1)]
       IN  /\ pc # "recv" => ratio' = ratio
           /\ pc = "recv" =>
                 /\ (runs /\ f = Early /\ h = Early) => ratio' = down
                 /\ (runs /\ f = Late /\ h = Late) => ratio' = up
                 /\ (f # h \/ f = Other) => ratio' = ratio
                 /\ ratio' \in {ratio, down, up}
                 /\ ratio' # ratio => runs]_vars

C4_Witness ==
    /\ pc = "sleep"
    /\ cli.server_time_field = Late
    /\ cli.server_time_header = Late
    /\ ratio.i = pre.ratio.i + 1
    /\ ratio.v > pre.ratio.v

(* C5: after any sequence of +1.0 and -1.0 updates, 0 <= v <= 1 (v is in
   hundredths). *)
C5_VWithinUnitInterval ==
    0 <= ratio.v /\ ratio.v <= 100

C5_Witness ==
    /\ ratio.i = pre.ratio.i - 1
    /\ pre.ratio.v - 1 + ratio.i < 0
    /\ ratio.v = 0

(* C6 as stated: an update with error +1.0 never lowers v and an update with
   error -1.0 never raises it. *)
C6_Original ==
    [][/\ ratio'.i = ratio.i + 1 => ratio'.v >= ratio.v
       /\ ratio'.i = ratio.i - 1 => ratio'.v <= ratio.v]_vars

(* C6 as amended: an update with error +1.0 does not lower v when the
   accumulator after the update is >= 0, and an update with error -1.0 does
   not raise v when the accumulator after the update is <= 0. *)
C6_DirectionWhenIntegralAgrees ==
    [][/\ (ratio'.i = ratio.i + 1 /\ ratio'.i >= 0) => ratio'.v >= ratio.v
       /\ (ratio'.i = ratio.i - 1 /\ ratio'.i <= 0) => ratio'.v <= ratio.v]_vars

C6_Witness ==
    /\ ratio.i = pre.ratio.i + 1
    /\ ratio.i >= 0
    /\ ratio.v > pre.ratio.v

(* C7 as stated: in the scenario (the first three ticks succeed with RTTs
   100, 120, 90 ms and both readings Early), v strictly decreases at each of
   the three ticks, starting from 0.5. *)
C7_Original ==
    scen.on =>
        \A k \in 1..Len(scen.v) :
            scen.v[k] < (IF k = 1 THEN 50 ELSE scen.v[k - 1])

(* C7 as amended: in the scenario, v is still 0.5 after the first tick (the
   controller step is skipped while the estimator is empty) and strictly
   decreases at the second and at the third tick. *)
C7_DecreaseFromSecondTick ==
    scen.on =>
        \A k \in 1..Len(scen.v) :
            IF k = 1 THEN scen.v[k] = 50 ELSE scen.v[k] < scen.v[k - 1]

C7_Witness ==
    scen.on /\ Len(scen.v) = 3 /\ pushes = 3

(* C8: is_empty() is true exactly when no sample has ever been pushed. *)
C8_EmptyIffNeverPushed ==
    Window_is_empty(win) <=> pushes = 0

(* C9: the cursor is the number of edit requests built so far mod N and stays
   in [0, N); the latest request uses endpoint (k mod N) where k counts the
   requests built before it; the startup getChat call builds none. *)
C9_RoundRobin ==
    /\ cli.url_idx \in 0..(NumUrls - 1)
    /\ cli.url_idx = built % NumUrls
    /\ built > 0 => req.url = (built - 1) % NumUrls
    /\ pc \in {"getchat", "begin"} => built = 0

C9_Witness ==
    /\ pc = "sleep"
    /\ built > NumUrls
    /\ ~resp.ok

(* C10: at the end of every tick, if target_second + 1s is earlier than now
   the next target second is the whole second of now plus 1s, and otherwise
   it is target_second + 1s. *)
C10_DriftRecovery ==
    [][pc = "recv" =>
          date' = IF TimeLt(Time(date.secs + 1, date.nanos), now')
                  THEN Time(now'.secs + 1, 0)
                  ELSE Time(date.secs + 1, date.nanos)]_vars

C10_Witness ==
    /\ pc = "sleep"
    /\ TimeLt(Time(pre.date.secs + 3, pre.date.nanos), now)
    /\ date = Time(now.secs + 1, 0)
    /\ date.secs > pre.date.secs + 3

(* C11: the target second of a tick is exactly one second after the target
   second of the tick before it unless the drift check fired at the end of
   that tick, whether that tick succeeded or failed; the request built for
   the tick carries that target. *)
C11_TickOrdering ==
    (pc = "sleep" /\ ~TimeLt(Time(pre.date.secs + 1, pre.date.nanos), now)) =>
        /\ date = Time(pre.date.secs + 1, pre.date.nanos)
        /\ req.target = date

C11_Witness ==
    /\ pc = "sleep"
    /\ ~resp.ok
    /\ built > 2
    /\ ~TimeLt(Time(pre.date.secs + 1, pre.date.nanos), now)
    /\ date.secs = pre.date.secs + 1

(* C12: in every state of the loop (after the initial alignment, after a
   one-second advance, after a drift realignment) the target second has no
   sub-second part, and neither has the target of the request built for it. *)
C12_TargetAligned ==
    pc \in {"send", "recv", "sleep"} =>
        /\ date.nanos = 0
        /\ req.target.nanos = 0

C12_Witness ==
    /\ pc = "sleep"
    /\ now.nanos # 0
    /\ TimeLt(Time(pre.date.secs + 1, pre.date.nanos), now)
    /\ date = Time(now.secs + 1, 0)

(* a step of the loop stays in the loop; the step that handles a failed tick
   advances the target second and builds the next request *)
LoopGoesOn ==
    pc \in {"send", "recv", "sleep"} =>
        /\ pc' \in {"send", "recv", "sleep"}
        /\ (pc = "recv" /\ ~resp.ok) =>
               (/\ pc' = "sleep"
                /\ TimeLt(date, date')
                /\ built' = built + 1
                /\ req'.target = date')
        /\ (pc = "sleep" => pc' = "send")

(* C13: a failed write never stops the loop: the step that handles a failed
   tick still advances the target second and builds the next request, the
   loop never leaves its three positions, and every loop state has a next
   step (up to the horizon of the model, where no further request is sent). *)
C13_LoopSurvivesFailure ==
    /\ [][LoopGoesOn]_vars
    /\ [](pc \in {"send", "recv", "sleep"} =>
             (ENABLED Next) \/ (pc = "send" /\ date.secs >= EndSec))

C13_Witness ==
    /\ pc = "send"
    /\ ~resp.ok
    /\ pushes = 0
    /\ built = 4

(* the lead time v * rtt_estimate, in whole nanoseconds *)
LeadTime == (avg \div 100) * ratio.v + ((avg % 100) * ratio.v) \div 100

(* the send instant target_second - lead time of an aligned target second *)
SendInstant ==
    IF LeadTime = 0 THEN date ELSE Time(date.secs - 1, NanosPerSec - LeadTime)

(* the instant the loop goes on to dispatch the request: the reading of the
   clock at the end of the iteration plus the time slept *)
DispatchInstant ==
    IF slept = NoSleep THEN clock
    ELSE LET n == clock.nanos + slept.nanos
         IN  IF n >= NanosPerSec
             THEN Time(clock.secs + slept.secs + 1, n - NanosPerSec)
             ELSE Time(clock.secs + slept.secs, n)

(* C14: at the end of every iteration the lead time off is v * rtt_estimate,
   lies in [0, rtt_estimate] and is zero while no sample was pushed; the loop
   sleeps exactly the remaining time to target_second - off when that
   instant is not yet past and does not sleep when it is past, so it goes on
   to dispatch no earlier than the send instant. *)
C14_SendScheduling ==
    (pc = "send" /\ clock # NoTime) =>
        /\ off = LeadTime
        /\ 0 <= off /\ off <= avg
        /\ pushes = 0 => off = 0
        /\ IF TimeLt(SendInstant, clock)
           THEN slept = NoSleep
           ELSE /\ slept # NoSleep
                /\ slept.secs >= 0 /\ slept.nanos >= 0
                /\ DispatchInstant = SendInstant
        /\ ~TimeLt(DispatchInstant, SendInstant)

C14_Witness ==
    /\ pc = "send"
    /\ off > 0
    /\ off < avg
    /\ slept # NoSleep
    /\ slept.nanos > 0
    /\ TimeLt(clock, SendInstant)

(* C15: the estimate after the first pushed sample is that sample; every
   later push sets estimate = 0.7 * estimate + 0.3 * sample (so the second
   gives 0.7 * s1 + 0.3 * s2); the average is zero before any push. *)
C15_EwmaOfAllSamples ==
    [][/\ (pc = "recv" /\ resp.ok) =>
             win' = IF pushes = 0
                    THEN [n |-> cli.time0, e |-> 0]
                    ELSE Norm(7 * win.n + 3 * cli.time0 * Pow10(win.e), win.e + 1)
       /\ pushes' = 0 => avg' = 0]_vars

(* C16: when an edit request is dispatched (and until its response is
   handled) sec1 is the seconds component of the target second whose text
   the request carries, sec0 is (sec1 - 1) mod 60, and both are in [0, 59]. *)
C16_WindowMatchesRequest ==
    pc \in {"send", "recv"} =>
        /\ req.target = date
        /\ req.msg[3] = cli.sec1
        /\ cli.sec1 = req.target.secs % 60
        /\ cli.sec0 = (cli.sec1 + 59) % 60
        /\ cli.sec0 \in 0..59
        /\ cli.sec1 \in 0..59

C16_Witness ==
    /\ pc = "send"
    /\ built > 1
    /\ req.target.secs = 60
    /\ cli.sec1 = 0
    /\ cli.sec0 = 59

(* the controller step of a successful tick with a non-empty estimator, for
   the stored readings (f, h) *)
StepWithReadings(f, h) ==
    /\ pc = "recv"
    /\ resp.ok
    /\ ~Window_is_empty(win)
    /\ cli.server_time_field = f
    /\ cli.server_time_header = h

(* C17: when the controller step runs, the pair (epoch Late, header Early)
   logs the anomaly and the pair (epoch Early, header Late) logs nothing;
   neither changes v or i and the loop goes on after both. *)
C17_AsymmetricDisagreement ==
    [][/\ StepWithReadings(Late, Early) =>
             (log' = "earlier" /\ ratio' = ratio /\ pc' = "sleep")
       /\ StepWithReadings(Early, Late) =>
             (log' = "none" /\ ratio' = ratio /\ pc' = "sleep")]_vars

C17_Witness ==
    /\ pc = "sleep"
    /\ log = "earlier"
    /\ cli.server_time_field = Late
    /\ cli.server_time_header = Early
    /\ ratio = pre.ratio

(* C18: every end-of-tick step moves the target second strictly forward,
   wherever the wall clock reading lies (also before the target or before an
   earlier reading); a drift realignment moves it more than one second
   forward; no other step of the loop changes it. *)
C18_TargetStrictlyIncreases ==
    [][/\ pc = "recv" =>
             /\ TimeLt(date, date')
             /\ TimeLt(Time(date.secs + 1, date.nanos), now') =>
                    TimeLt(Time(date.secs + 1, date.nanos), date')
       /\ pc \in {"send", "sleep"} => date' = date]_vars

C18_Witness ==
    /\ pc = "sleep"
    /\ built > 2
    /\ TimeLt(now, pre.date)
    /\ TimeLt(pre.date, date)

(* C19: the accumulator i is the number of update(+1.0) calls minus the
   number of update(-1.0) calls, also while v is held at 0 or 1. *)
C19_IntegralCountsUpdates ==
    ratio.i = upd.up - upd.down

C19_Witness ==
    /\ ratio.v = 0
    /\ pre.ratio.v = 0
    /\ ratio.i = pre.ratio.i - 1
    /\ upd.down - upd.up > 10

====
